---------------------------- MODULE Spec2Model ----------------------------
(***************************************************************************)
(* A model of whale-watcher's ETL pipeline (src/etl_pipeline.py) and of    *)
(* the caller that renders its result (src/app.py).                        *)
(*                                                                         *)
(* Two specifications are defined:                                         *)
(*   Spec        one run of get_crypto_data, step by step, followed by the *)
(*               caller's rendering of what the run produced;              *)
(*   SpecDecode  the pure function decode_swap_log applied to a bounded    *)
(*               family of payloads.                                       *)
(*                                                                         *)
(* Characters are one-character strings and a payload is a sequence of     *)
(* characters.  The code's word is 32 bytes (64 hex characters); TLC's     *)
(* integers are 32 bits wide, so the model's word is WordBytes bytes and   *)
(* every slice bound of the code is scaled accordingly (64 -> WordHex,     *)
(* 128 -> 2 * WordHex).  Timestamps are integers counting minutes.         *)
(***************************************************************************)
EXTENDS Integers, Sequences, FiniteSets, TLC

VARIABLES
    env,            \* the process environment and secrets store read by the run
    pc,             \* the position of the run inside get_crypto_data / app.py
    project_id,     \* the local project_id of get_crypto_data
    queries,        \* number of queries sent to the event source
    fetched,        \* the rows the event source returned (in source order)
    df,             \* the data frame: the sequence of row ids in frame order
    amounts,        \* per row id: the decoded <<amount0, amount1>>
    is_bot,         \* per row id: the is_bot column
    ai_narratives,  \* the list ai_narratives
    calls,          \* the rows and prompts given to model.generate_content
    outcomes,       \* what each of those calls did
    result,         \* what get_crypto_data produced
    ui,             \* what app.py rendered
    printed,        \* the messages get_crypto_data printed
    log_data,       \* SpecDecode: the argument of decode_swap_log
    decoded         \* SpecDecode: what decode_swap_log produced

vars == <<env, pc, project_id, queries, fetched, df, amounts, is_bot,
          ai_narratives, calls, outcomes, result, ui, printed, log_data,
          decoded>>

pipeVars == <<env, pc, project_id, queries, fetched, df, amounts, is_bot,
              ai_narratives, calls, outcomes, result, ui, printed>>

decodeVars == <<log_data, decoded>>

---------------------------------------------------------------------------
(* Bounds of the model.                                                    *)

\* bytes per word in the model (the code's word is 32 bytes)
WordBytes == 1

\* amounts -AmtSpan..AmtSpan are sampled besides the extreme values
AmtSpan == 3

\* largest number of rows the event source returns in the size family
MaxFetch == 22

\* largest number of rows in the families that vary actors, gaps and payloads
MaxSmall == 3

\* largest number of narrative-service calls that fail in one run
MaxFailures == 2

---------------------------------------------------------------------------
(* Characters and integers.                                                *)

HexChars == <<"0", "1", "2", "3", "4", "5", "6", "7",
              "8", "9", "a", "b", "c", "d", "e", "f">>

HexSet == {HexChars[k] : k \in 1..16}

\* ASCII whitespace, which bytes.fromhex skips between bytes
Whitespace == {" "}

\* the value of a hex character
HexVal(c) == (CHOOSE k \in 1..16 : HexChars[k] = c) - 1

RECURSIVE Pow(_, _)
Pow(b, n) == IF n = 0 THEN 1 ELSE b * Pow(b, n - 1)

WordHex == 2 * WordBytes

MinInt == -(Pow(256, WordBytes) \div 2)

MaxInt == (Pow(256, WordBytes) \div 2) - 1

\* python's s[a:b] for 0 <= a <= b (1-based sequence, 0-based slice bounds)
Slice(s, a, b) ==
    LET hi == IF b < Len(s) THEN b ELSE Len(s)
    IN  IF a >= hi THEN <<>> ELSE SubSeq(s, a + 1, hi)

StartsWith0x(s) == Len(s) >= 2 /\ s[1] = "0" /\ s[2] = "x"

---------------------------------------------------------------------------
(* decode_swap_log.                                                        *)

\* what bytes.fromhex gives: the byte values, or the ValueError it raises
Bytes(bs) == [err |-> FALSE, bytes |-> bs]

ValueError == [err |-> TRUE, bytes |-> <<>>]

\* bytes.fromhex: whitespace is skipped before a byte, then two hex digits
\* are required
RECURSIVE FromHex(_)
FromHex(s) ==
    IF s = <<>> THEN Bytes(<<>>)
    ELSE IF Head(s) \in Whitespace THEN FromHex(Tail(s))
    ELSE IF Len(s) < 2 \/ s[1] \notin HexSet \/ s[2] \notin HexSet
         THEN ValueError
    ELSE LET rest == FromHex(Slice(s, 2, Len(s)))
         IN  IF rest.err THEN ValueError
             ELSE Bytes(<<16 * HexVal(s[1]) + HexVal(s[2])>> \o rest.bytes)

RECURSIVE Unsigned(_)
Unsigned(bs) ==
    IF bs = <<>> THEN 0
    ELSE 256 * Unsigned(SubSeq(bs, 1, Len(bs) - 1)) + bs[Len(bs)]

\* faulty variant: the sign bit is not interpreted (signed=False)
IntFromBytesUnsigned(bs) == Unsigned(bs)

\* int.from_bytes(bs, byteorder='big', signed=True); no bytes give 0
IntFromBytes(bs) ==
    IF bs # <<>> /\ bs[1] >= 128
    THEN Unsigned(bs) - Pow(256, Len(bs))
    ELSE Unsigned(bs)

\* lines 11-12: a leading '0x' is dropped
StripMarker(s) == IF StartsWith0x(s) THEN Slice(s, 2, Len(s)) ELSE s

\* the result of decode_swap_log: the pair of amounts, or the ValueError
\* that bytes.fromhex raised
decode_swap_log(s) ==
    LET body == StripMarker(s)
        amount0_hex == Slice(body, 0, WordHex)
        amount1_hex == Slice(body, WordHex, 2 * WordHex)
        b0 == FromHex(amount0_hex)
        b1 == FromHex(amount1_hex)
    IN  IF b0.err \/ b1.err
        THEN [ok |-> FALSE, amount0 |-> 0, amount1 |-> 0]
        ELSE [ok |-> TRUE, amount0 |-> IntFromBytes(b0.bytes),
              amount1 |-> IntFromBytes(b1.bytes)]

\* decoded before and after the call of SpecDecode
NotRun == [ok |-> FALSE, amount0 |-> 0, amount1 |-> 0, ran |-> FALSE]

Ran(r) == [ok |-> r.ok, amount0 |-> r.amount0, amount1 |-> r.amount1,
           ran |-> TRUE]

---------------------------------------------------------------------------
(* Payloads: the encoder of the swap log and the payload families.         *)

\* v as n hex characters, most significant first, for 0 <= v < 16^n
RECURSIVE HexOf(_, _)
HexOf(v, n) ==
    IF n = 0 THEN <<>>
    ELSE HexOf(v \div 16, n - 1) \o <<HexChars[(v % 16) + 1]>>

\* a signed amount as one big-endian two's-complement word
EncodeWord(v) ==
    HexOf(IF v < 0 THEN v + Pow(256, WordBytes) ELSE v, WordHex)

Marker == <<"0", "x">>

Payload(a0, a1, marked) ==
    (IF marked THEN Marker ELSE <<>>) \o EncodeWord(a0) \o EncodeWord(a1)

SampleAmounts ==
    {MinInt, MinInt + 1, MaxInt - 1, MaxInt} \cup (-AmtSpan..AmtSpan)

ExtremeAmounts == {MinInt, -1, 0, 1, MaxInt}

\* the words that follow the two amounts in a real swap log
Trailer == EncodeWord(1) \o EncodeWord(-1)

WellFormedPayloads ==
    {Payload(a0, a1, m) \o t :
        a0 \in SampleAmounts, a1 \in SampleAmounts, m \in BOOLEAN,
        t \in {<<>>, Trailer}}

BasePayloads ==
    {Payload(a0, a1, m) : a0 \in ExtremeAmounts, a1 \in ExtremeAmounts,
                          m \in BOOLEAN}

TruncatedPayloads ==
    {Slice(p, 0, n) : p \in BasePayloads, n \in 0..(2 * WordHex + 1)}

ReplaceAt(p, k, c) == [j \in 1..Len(p) |-> IF j = k THEN c ELSE p[j]]

\* one character replaced by a blank or a letter that is no hex digit
CorruptedPayloads ==
    UNION {{ReplaceAt(p, k, c) : k \in 1..Len(p), c \in {" ", "g", "x"}} :
           p \in BasePayloads}

\* one whole byte replaced by two blanks
BlankedPayloads ==
    UNION {{ReplaceAt(ReplaceAt(p, 2 * k - 1, " "), 2 * k, " ") :
            k \in 1..(2 * WordBytes)} :
           p \in {q \in BasePayloads : ~StartsWith0x(q)}}

Payloads ==
    WellFormedPayloads \cup TruncatedPayloads \cup CorruptedPayloads
        \cup BlankedPayloads

---------------------------------------------------------------------------
(* The event source: the tables a fetch can return.  The query orders the  *)
(* rows by block_timestamp descending, so row 1 is the newest.             *)

\* line 92: pd.Timedelta(minutes=5)
threshold == 5

\* line 97: head(20)
FeedRows == 20

\* faulty variant: the loop covers one row more than the placeholders skip
AnalyzedRowsOneMore == 10 + 1

\* line 101: head(10)
AnalyzedRows == 10

\* line 128: len(df) - 10
SkipOffset == 10

\* The data column holds one of four payloads; a row carries the payload's
\* name and PayloadText gives its characters.
PayloadKinds == {"buy", "sell", "nonhex", "short"}

BuyPayload == Marker \o EncodeWord(-2) \o EncodeWord(3) \o Trailer

SellPayload == Marker \o EncodeWord(2) \o EncodeWord(-3) \o Trailer

\* a payload bytes.fromhex rejects
NonHexPayload == ReplaceAt(BuyPayload, 3, "g")

\* a payload that stops after its first word
ShortPayload == Marker \o EncodeWord(2)

PayloadText(d) ==
    CASE d = "buy" -> BuyPayload
      [] d = "sell" -> SellPayload
      [] d = "nonhex" -> NonHexPayload
      [] d = "short" -> ShortPayload

Row(s, t, d) == [sender |-> s, block_timestamp |-> t, data |-> d]

\* tables of every size: one sender trading every threshold minutes (odd
\* sizes) or two senders taking turns, threshold + 1 minutes apart (even
\* sizes)
SizeTables ==
    {[i \in 1..F |->
        Row(IF F % 2 = 1 THEN 1 ELSE 1 + (i % 2),
            (F - i) * (threshold + 1 - (F % 2)),
            IF i % 2 = 1 THEN "buy" ELSE "sell")] :
     F \in 0..MaxFetch}

Gaps == {0, threshold, threshold + 1}

RECURSIVE SumFrom(_, _)
SumFrom(g, i) == IF i > Len(g) THEN 0 ELSE g[i] + SumFrom(g, i + 1)

\* small tables with every assignment of two senders to the rows (the newest
\* row is sender 1's) and every choice of gaps between neighbouring rows
ActorTables ==
    UNION {
        {[i \in 1..F |->
            Row(s[i], SumFrom(g, i),
                IF i % 2 = 1 THEN "buy" ELSE "sell")] :
         s \in {f \in [1..F -> 1..2] : f[1] = 1},
         g \in [1..(F - 1) -> Gaps]} :
        F \in 1..MaxSmall}

\* small tables with every assignment of payloads to the rows
PayloadTables ==
    UNION {
        {[i \in 1..F |-> Row(i, (F - i) * (threshold + 1), d[i])] :
         d \in [1..F -> PayloadKinds]} :
        F \in 1..MaxSmall}

FetchResults == SizeTables \cup ActorTables \cup PayloadTables

---------------------------------------------------------------------------
(* Helpers of the run.                                                     *)

Rows == 1..Len(fetched)

\* python's seq[:n]
HeadN(q, n) == IF Len(q) <= n THEN q ELSE SubSeq(q, 1, n)

\* every order of the rows S that is ascending in key; sort_values does not
\* fix the order of rows with equal keys
RECURSIVE Orders(_, _)
Orders(S, key) ==
    IF S = {} THEN {<<>>}
    ELSE UNION {{<<r>> \o t : t \in Orders(S \ {r}, key)} :
                r \in {x \in S : \A y \in S : key[x] <= key[y]}}

Span == 1 + (IF fetched = <<>> THEN 0 ELSE fetched[1].block_timestamp)

\* line 90: by=['sender', 'block_timestamp']
SenderTimeKey == [r \in Rows |->
    fetched[r].sender * Span + fetched[r].block_timestamp]

\* line 97: by='block_timestamp', ascending=False
NewestFirstKey == [r \in Rows |-> -fetched[r].block_timestamp]

\* line 91: groupby('sender')['block_timestamp'].diff() at position k of the
\* frame o; the first row of a group has no difference (NaT)
SameSender(o, j, k) == fetched[o[j]].sender = fetched[o[k]].sender

HasDiff(o, k) == \E j \in 1..(k - 1) : SameSender(o, j, k)

PrevInGroup(o, k) ==
    CHOOSE j \in 1..(k - 1) :
        /\ SameSender(o, j, k)
        /\ \A l \in (j + 1)..(k - 1) : ~SameSender(o, l, k)

TimeDiff(o, k) ==
    fetched[o[k]].block_timestamp
        - fetched[o[PrevInGroup(o, k)]].block_timestamp

\* faulty variant: a gap of exactly the threshold is not counted
WithinThresholdStrict(d) == d < threshold

\* line 93: time_diff <= threshold
WithinThreshold(d) == d <= threshold

\* line 93: the senders of the rows whose time_diff is within the threshold
BotSenders(o) ==
    {fetched[o[k]].sender :
        k \in {m \in 1..Len(o) :
                  HasDiff(o, m) /\ WithinThreshold(TimeDiff(o, m))}}

NoPrompt == [action |-> "none", token0 |-> 0, token1 |-> 0, bot_note |-> FALSE]

\* lines 102-116: the prompt of a row, by its variable parts
Prompt(r) ==
    IF amounts[r][1] < 0
    THEN [action |-> "bought", token0 |-> -amounts[r][1],
          token1 |-> amounts[r][2], bot_note |-> is_bot[r]]
    ELSE [action |-> "sold", token0 |-> amounts[r][1],
          token1 |-> -amounts[r][2], bot_note |-> is_bot[r]]

\* line 120: the service's text for a prompt
Generated(p) == [text |-> "generated", prompt |-> p]

Fixed(t) == [text |-> t, prompt |-> NoPrompt]

Unavailable == Fixed("analysis unavailable (api limit). [neutral]")

Failed == Fixed("analysis failed. [neutral]")

Skipped == Fixed("analysis skipped to save api credits. [neutral]")

\* what model.generate_content can do: return, or raise TooManyRequests,
\* NotFound or another exception
ServiceOutcomes == {"ok", "TooManyRequests", "NotFound", "Exception"}

\* faulty variant: one handler for every exception
NarrativeForFirstHandlerOnly(o, p) ==
    IF o = "ok" THEN Generated(p) ELSE Unavailable

\* lines 118-125: what is appended for a call with outcome o
NarrativeFor(o, p) ==
    IF o = "ok" THEN Generated(p)
    ELSE IF o \in {"NotFound", "TooManyRequests"} THEN Unavailable
    ELSE Failed

Failures == Cardinality({k \in 1..Len(outcomes) : outcomes[k] # "ok"})

RECURSIVE Repeat(_, _)
Repeat(x, n) == IF n <= 0 THEN <<>> ELSE <<x>> \o Repeat(x, n - 1)

---------------------------------------------------------------------------
(* Spec: one run of get_crypto_data and the caller's rendering.            *)

Configured == [creds |-> TRUE, api_key |-> "env", project |-> TRUE,
               client_ok |-> TRUE]

\* the configured environment and the environments that differ from it in
\* at most one setting
Envs ==
    {e \in [creds : BOOLEAN, api_key : {"env", "secrets", "absent"},
             project : BOOLEAN, client_ok : BOOLEAN] :
        Cardinality({f \in {"creds", "api_key", "project", "client_ok"} :
                        e[f] # Configured[f]}) <= 1}

Init ==
    /\ env \in Envs
    /\ pc = "config"
    /\ project_id = "unset"
    /\ queries = 0
    /\ fetched = <<>>
    /\ df = <<>>
    /\ amounts = <<>>
    /\ is_bot = <<>>
    /\ ai_narratives = <<>>
    /\ calls = <<>>
    /\ outcomes = <<>>
    /\ result = "none"
    /\ ui = "none"
    /\ printed = <<>>
    /\ log_data = <<>>
    /\ decoded = NotRun

Raise(e) == pc' = "raised" /\ result' = e

\* line 48, line 79, line 124: what the run prints
Printing(m) == printed' = Append(printed, m)

\* faulty variant: the credentials location is not checked
CredsCheckSkipped(e) == TRUE

\* line 31: os.getenv("GOOGLE_APPLICATION_CREDENTIALS") is set
CredsPresent(e) == e.creds

\* lines 35-49: the key comes from the environment or, failing that, from
\* the streamlit secrets
KeyFound(e) == e.api_key \in {"env", "secrets"}

\* lines 28-51: the configuration is read and the clients are built
LoadConfig ==
    /\ pc = "config"
    /\ project_id' = IF env.project THEN "project" ELSE "None"
    /\ IF ~CredsPresent(env)
       THEN /\ Raise("Exception: GOOGLE_APPLICATION_CREDENTIALS not set")
            /\ UNCHANGED printed
       ELSE IF ~KeyFound(env)
       THEN /\ Raise("Exception: GOOGLE_API_KEY")
            /\ Printing("failed to configure gemini")
       ELSE IF ~env.client_ok
       THEN Raise("Exception: bigquery.Client") /\ UNCHANGED printed
       ELSE pc' = "fetch" /\ UNCHANGED <<result, printed>>
    /\ UNCHANGED <<env, queries, fetched, df, amounts, is_bot, ai_narratives,
                   calls, outcomes, ui, decodeVars>>

\* faulty variant: the query's exception is not caught
FetchFailsPropagates ==
    /\ pc = "fetch"
    /\ queries' = queries + 1
    /\ Raise("Exception: query")
    /\ UNCHANGED <<env, project_id, fetched, df, amounts, is_bot,
                   ai_narratives, calls, outcomes, ui, printed, decodeVars>>

\* lines 75-80: the query raises; an empty frame is returned
FetchFails ==
    /\ pc = "fetch"
    /\ queries' = queries + 1
    /\ pc' = "returned"
    /\ result' = "empty"
    /\ Printing("bigquery query failed")
    /\ UNCHANGED <<env, project_id, fetched, df, amounts, is_bot,
                   ai_narratives, calls, outcomes, ui, decodeVars>>

\* lines 75-83: the query returns a table; an empty one is returned as is
FetchRows ==
    /\ pc = "fetch"
    /\ queries' = queries + 1
    /\ \E t \in FetchResults :
        /\ fetched' = t
        /\ IF t = <<>>
           THEN pc' = "returned" /\ result' = "empty" /\ df' = <<>>
           ELSE pc' = "decode" /\ UNCHANGED result
                /\ df' = [k \in 1..Len(t) |-> k]
    /\ UNCHANGED <<env, project_id, amounts, is_bot, ai_narratives, calls,
                   outcomes, ui, printed, decodeVars>>

\* lines 85-86: every payload is decoded; a ValueError leaves the function
\* (value_eth is a coerced conversion of a column the model leaves out)
Decode ==
    /\ pc = "decode"
    /\ IF \E r \in Rows : ~decode_swap_log(PayloadText(fetched[r].data)).ok
       THEN Raise("ValueError") /\ UNCHANGED amounts
       ELSE /\ amounts' = [r \in Rows |->
                  <<decode_swap_log(PayloadText(fetched[r].data)).amount0,
                    decode_swap_log(PayloadText(fetched[r].data)).amount1>>]
            /\ pc' = "classify"
            /\ UNCHANGED result
    /\ UNCHANGED <<env, project_id, queries, fetched, df, is_bot,
                   ai_narratives, calls, outcomes, ui, printed, decodeVars>>

\* lines 89-94: bot detection over all the fetched rows
Classify ==
    /\ pc = "classify"
    /\ \E o \in Orders(Rows, SenderTimeKey) :
        /\ df' = o
        /\ is_bot' = [r \in Rows |-> fetched[r].sender \in BotSenders(o)]
    /\ pc' = "select"
    /\ UNCHANGED <<env, project_id, queries, fetched, amounts, ai_narratives,
                   calls, outcomes, result, ui, printed, decodeVars>>

\* faulty variant: the frame keeps the order of the bot detection
SelectWithoutSort ==
    /\ pc = "select"
    /\ df' = HeadN(df, FeedRows)
    /\ pc' = "annotate"
    /\ UNCHANGED <<env, project_id, queries, fetched, amounts, is_bot,
                   ai_narratives, calls, outcomes, result, ui, printed,
                   decodeVars>>

\* line 97: the newest FeedRows rows, newest first
Select ==
    /\ pc = "select"
    /\ \E o \in Orders(Rows, NewestFirstKey) : df' = HeadN(o, FeedRows)
    /\ pc' = "annotate"
    /\ UNCHANGED <<env, project_id, queries, fetched, amounts, is_bot,
                   ai_narratives, calls, outcomes, result, ui, printed,
                   decodeVars>>

\* faulty variant: a rate-limited row is tried again
AnnotateWithRetry ==
    /\ pc = "annotate"
    /\ Len(ai_narratives) < Len(HeadN(df, AnalyzedRows))
    /\ LET r == df[Len(ai_narratives) + 1]
       IN  \E o \in ServiceOutcomes :
            /\ o # "ok" => Failures < MaxFailures
            /\ calls' = Append(calls, [row |-> r, prompt |-> Prompt(r)])
            /\ outcomes' = Append(outcomes, o)
            /\ ai_narratives' =
                  IF o = "TooManyRequests" THEN ai_narratives
                  ELSE Append(ai_narratives, NarrativeFor(o, Prompt(r)))
            /\ IF o = "Exception" THEN Printing("ai generation failed")
               ELSE UNCHANGED printed
    /\ UNCHANGED <<env, pc, project_id, queries, fetched, df, amounts, is_bot,
                   result, ui, decodeVars>>

\* lines 101-125: one iteration of the loop over df.head(10)
Annotate ==
    /\ pc = "annotate"
    /\ Len(ai_narratives) < Len(HeadN(df, AnalyzedRows))
    /\ LET r == df[Len(ai_narratives) + 1]
       IN  \E o \in ServiceOutcomes :
            /\ o # "ok" => Failures < MaxFailures
            /\ calls' = Append(calls, [row |-> r, prompt |-> Prompt(r)])
            /\ outcomes' = Append(outcomes, o)
            /\ ai_narratives' =
                  Append(ai_narratives, NarrativeFor(o, Prompt(r)))
            /\ IF o = "Exception" THEN Printing("ai generation failed")
               ELSE UNCHANGED printed
    /\ UNCHANGED <<env, pc, project_id, queries, fetched, df, amounts, is_bot,
                   result, ui, decodeVars>>

\* lines 127-132: the placeholders are appended, the list becomes the
\* AI_Narrative column (its length must be the frame's) and the frame is
\* returned
Finish ==
    /\ pc = "annotate"
    /\ Len(ai_narratives) = Len(HeadN(df, AnalyzedRows))
    /\ ai_narratives' = ai_narratives \o Repeat(Skipped, Len(df) - SkipOffset)
    /\ IF Len(ai_narratives') = Len(df)
       THEN pc' = "returned" /\ result' = "frame"
       ELSE Raise("ValueError")
    /\ UNCHANGED <<env, project_id, queries, fetched, df, amounts, is_bot,
                   calls, outcomes, ui, printed, decodeVars>>

\* app.py lines 59-102: the caller renders the feed, the warning for an
\* empty frame, or the error of a run that raised
Render ==
    /\ pc \in {"returned", "raised"}
    /\ ui' = IF pc = "raised" THEN "error"
             ELSE IF result = "empty" THEN "warning" ELSE "feed"
    /\ pc' = "rendered"
    /\ UNCHANGED <<env, project_id, queries, fetched, df, amounts, is_bot,
                   ai_narratives, calls, outcomes, result, printed, decodeVars>>

Next ==
    \/ LoadConfig
    \/ FetchFails
    \/ FetchRows
    \/ Decode
    \/ Classify
    \/ Select
    \/ Annotate
    \/ Finish
    \/ Render

Spec == Init /\ [][Next]_vars

---------------------------------------------------------------------------
(* SpecDecode: decode_swap_log applied to every payload of the family.     *)

IdlePipe ==
    /\ env = [creds |-> TRUE, api_key |-> "env", project |-> TRUE,
              client_ok |-> TRUE]
    /\ pc = "idle"
    /\ project_id = "unset"
    /\ queries = 0
    /\ fetched = <<>>
    /\ df = <<>>
    /\ amounts = <<>>
    /\ is_bot = <<>>
    /\ ai_narratives = <<>>
    /\ calls = <<>>
    /\ outcomes = <<>>
    /\ result = "none"
    /\ ui = "none"
    /\ printed = <<>>

InitDecode ==
    /\ IdlePipe
    /\ log_data \in Payloads
    /\ decoded = NotRun

DecodeCall ==
    /\ pc = "idle"
    /\ ~decoded.ran
    /\ decoded' = Ran(decode_swap_log(log_data))
    /\ UNCHANGED <<log_data, pipeVars>>

NextDecode == DecodeCall

SpecDecode == InitDecode /\ [][NextDecode]_vars


---------------------------------------------------------------------------
(* Claims about decode_swap_log, checked under SpecDecode.                 *)

\* the payload as the decoder's contract sees it: the marker stripped
ContractBody(s) == IF StartsWith0x(s) THEN SubSeq(s, 3, Len(s)) ELSE s

\* fewer than two words of characters remain, or one of the two word
\* segments holds a character that is no hex digit
Malformed(s) ==
    LET body == ContractBody(s)
    IN  \/ Len(body) < 2 * WordHex
        \/ \E k \in 1..(2 * WordHex) : k <= Len(body) /\ body[k] \notin HexSet

\* C4: decode_swap_log fails with an error for every payload that has
\* fewer than two words of hex characters after the marker is stripped, and
\* for every payload with a non-hex character in a word segment; it never
\* returns a pair of amounts for such a payload.
C4_MalformedRejected ==
    (decoded.ran /\ Malformed(log_data)) => ~decoded.ok

---------------------------------------------------------------------------
(* Claims about the run, checked under Spec.                               *)

Min(a, b) == IF a <= b THEN a ELSE b

Ts(r) == fetched[r].block_timestamp

ConfigErrors == {"Exception: GOOGLE_APPLICATION_CREDENTIALS not set",
                 "Exception: GOOGLE_API_KEY", "Exception: bigquery.Client"}

\* the run has left the annotation loop with a frame
Returned == pc \in {"returned", "rendered"} /\ result = "frame"

\* the narrative the amended C1 expects for an outcome and a prompt
ExpectedNarrative(o, p) ==
    CASE o = "ok" -> Generated(p)
      [] o \in {"TooManyRequests", "NotFound"} -> Unavailable
      [] OTHER -> Failed

\* C1 (as amended): whatever the outcomes of the narrative-service calls,
\* the run returns a frame once it has started annotating, and narrative k
\* is decided by the outcome of call k alone: the service's text on success,
\* the fixed 'analysis unavailable' text on TooManyRequests or NotFound, the
\* fixed 'analysis failed' text on any other exception.
C1_FailureIsolation ==
    /\ calls # <<>> => pc \in {"annotate", "returned", "rendered"}
    /\ calls # <<>> /\ pc # "annotate" => result = "frame"
    /\ pc \in {"annotate", "returned", "rendered"} /\ result # "empty" =>
        /\ Len(outcomes) = Len(calls)
        /\ Len(outcomes) <= Len(ai_narratives)
        /\ \A k \in 1..Len(outcomes) :
              ai_narratives[k] = ExpectedNarrative(outcomes[k], Prompt(df[k]))

\* ten rows, TooManyRequests on the third call only
C1_Witness ==
    /\ Returned
    /\ Len(df) = 10
    /\ outcomes = [k \in 1..10 |-> IF k = 3 THEN "TooManyRequests" ELSE "ok"]
    /\ ai_narratives[3] = Unavailable
    /\ \A k \in (1..10) \ {3} : ai_narratives[k].text = "generated"

\* C1 (as stated): success gives the service's text, a rate limit the
\* 'analysis unavailable' text, and every other error the 'analysis failed'
\* text.
C1_AsStated ==
    \A k \in 1..Len(outcomes) :
        k <= Len(ai_narratives) =>
            /\ outcomes[k] = "ok" => ai_narratives[k].text = "generated"
            /\ outcomes[k] = "TooManyRequests" => ai_narratives[k] = Unavailable
            /\ outcomes[k] \notin {"ok", "TooManyRequests"} =>
                    ai_narratives[k] = Failed

\* C2: a run makes exactly min(10, min(20, F)) narrative-service calls, for
\* the first rows of the display set only; every later display row gets the
\* 'analysis skipped' placeholder, and every display row gets exactly one
\* narrative.
C2_CallCap ==
    /\ Len(calls) <= 10
    /\ pc = "raised" => calls = <<>>
    /\ Returned =>
        /\ Len(calls) = Min(10, Min(20, Len(fetched)))
        /\ \A k \in 1..Len(calls) : calls[k].row = df[k]
        /\ Len(ai_narratives) = Len(df)
        /\ Len(df) = Min(20, Len(fetched))
        /\ \A k \in 1..Len(df) : k > 10 <=> ai_narratives[k] = Skipped

\* fifteen rows fetched: ten calls and five placeholders
C2_Witness ==
    /\ Returned
    /\ Len(fetched) = 15
    /\ Len(calls) = 10
    /\ Cardinality({k \in 1..Len(ai_narratives) :
                        ai_narratives[k] = Skipped}) = 5

\* C3: when the query fails or returns no rows the run returns an empty
\* result without raising, and no narrative-service call is made.
C3_EmptyFetch ==
    (queries > 0 /\ fetched = <<>>) =>
        /\ pc \in {"returned", "rendered"}
        /\ result = "empty"
        /\ calls = <<>>
        /\ ai_narratives = <<>>

\* the query failed and the caller showed the warning of an empty frame
C3_Witness ==
    /\ printed = <<"bigquery query failed">>
    /\ result = "empty"
    /\ ui = "warning"
    /\ calls = <<>>

\* C5: if the payload of any fetched event is malformed the run fails with
\* an error, returns no rows and has made no narrative-service call.
C5_DecodeAtomic ==
    (\E r \in Rows : Malformed(PayloadText(fetched[r].data))) =>
        /\ calls = <<>>
        /\ result # "frame"
        /\ pc \in {"decode", "raised", "rendered"}

\* the claim's rule for an actor: two of its events, neighbours in its
\* timeline, are at most five minutes apart
ActorIsBot(a) ==
    \E x \in Rows, y \in Rows :
        /\ x # y
        /\ fetched[x].sender = a
        /\ fetched[y].sender = a
        /\ Ts(x) <= Ts(y)
        /\ Ts(y) - Ts(x) <= 5
        /\ ~\E z \in Rows : /\ fetched[z].sender = a
                            /\ Ts(x) < Ts(z)
                            /\ Ts(z) < Ts(y)

\* C6: over all the fetched events, an actor is flagged as bot exactly when
\* two consecutive events of its timeline are at most five minutes apart;
\* every event of the actor carries the same flag.  (Stated of the frame
\* that Classify leaves; no later step writes is_bot.)
C6_BotClassification ==
    pc = "select" =>
        LET bots == {a \in {fetched[r].sender : r \in Rows} : ActorIsBot(a)}
        IN  /\ DOMAIN is_bot = Rows
            /\ \A r \in Rows : is_bot[r] <=> fetched[r].sender \in bots

\* one actor flagged by a gap of exactly five minutes, another with a single
\* event left unflagged
C6_Witness ==
    /\ pc = "select"
    /\ Len(fetched) = 3
    /\ \E x \in Rows, y \in Rows, z \in Rows :
        /\ fetched[x].sender = fetched[y].sender
        /\ fetched[z].sender # fetched[x].sender
        /\ Ts(x) - Ts(y) = 5
        /\ is_bot[x] /\ is_bot[y] /\ ~is_bot[z]

\* C7: each of the first ten display events is handed to the narrative
\* service exactly once, in display order, and none is retried.
C7_OnceInOrder ==
    /\ Len(outcomes) = Len(calls)
    /\ \A k \in 1..Len(calls) : k <= Len(df) /\ calls[k].row = df[k]
    /\ Cardinality({calls[k].row : k \in 1..Len(calls)}) = Len(calls)
    /\ \A k \in 1..(Len(calls) - 1) : Ts(calls[k].row) >= Ts(calls[k + 1].row)
    /\ Returned => Len(calls) = Min(10, Len(df))

\* ten calls were made although two of them failed
C7_Witness ==
    /\ Returned
    /\ Len(calls) = 10
    /\ outcomes[2] = "TooManyRequests"
    /\ outcomes[3] = "Exception"
    /\ calls[3].row = df[3]
    /\ calls[4].row = df[4]

\* C8: the returned frame holds the min(20, F) newest events, newest first,
\* each once, and narrative k belongs to row k of that order.
C8_DisplaySet ==
    Returned =>
        /\ Len(df) = Min(20, Len(fetched))
        /\ \A k \in 1..(Len(df) - 1) : Ts(df[k]) >= Ts(df[k + 1])
        /\ Cardinality({df[k] : k \in 1..Len(df)}) = Len(df)
        /\ \A q \in Rows \ {df[k] : k \in 1..Len(df)} :
              Ts(q) <= Ts(df[Len(df)])
        /\ Len(ai_narratives) = Len(df)
        /\ \A k \in 1..Len(df) :
              ai_narratives[k].text = "generated" =>
                  ai_narratives[k].prompt = Prompt(df[k])

\* twenty-two rows of two actors: the frame is the twenty newest, and the
\* first two rows, of different actors, carry their own narratives
C8_Witness ==
    /\ Returned
    /\ Len(fetched) = 22
    /\ Len(df) = 20
    /\ fetched[df[1]].sender # fetched[df[2]].sender
    /\ ai_narratives[1] = Generated(Prompt(df[1]))
    /\ ai_narratives[2] = Generated(Prompt(df[2]))
    /\ ai_narratives[1] # ai_narratives[2]

\* C9 (as amended): if the credentials location is not set, or the API key
\* is in neither the environment nor the streamlit secrets, the run raises
\* before any query is sent and before any narrative-service call.
C9_FailFast ==
    (pc # "config" /\ (~env.creds \/ env.api_key = "absent")) =>
        /\ pc \in {"raised", "rendered"}
        /\ result \in ConfigErrors
        /\ queries = 0
        /\ calls = <<>>

\* the credentials location is missing and the run has raised
C9_Witness ==
    /\ ~env.creds
    /\ pc = "raised"
    /\ result = "Exception: GOOGLE_APPLICATION_CREDENTIALS not set"
    /\ queries = 0

\* C9 (as stated): a missing credentials location, API key or project
\* identifier makes the run raise before any query is sent.
C9_AsStated ==
    (pc # "config" /\ (~env.creds \/ env.api_key = "absent" \/ ~env.project)) =>
        /\ pc \in {"raised", "rendered"}
        /\ result \in ConfigErrors
        /\ queries = 0
        /\ calls = <<>>

=============================================================================
